---- MODULE Spec2Model ----
(***************************************************************************)
(* Model of skimage_in_jax/registration.py: phase_cross_correlation and     *)
(* its helpers _upsampled_dft, _compute_error and _compute_phasediff.       *)
(*                                                                         *)
(* Numbers.  The arithmetic is exact.  Pixels are integers, axis lengths    *)
(* divide 8 and (axis length * upsample_factor) divides 8 on every axis     *)
(* longer than 1, so that every DFT twiddle factor and every kernel entry   *)
(* of _upsampled_dft is a power of z = exp(2*pi*i/8).  A complex number is  *)
(* therefore an element a + b*z + c*z^2 + d*z^3 of Z[z] (z^4 = -1), kept as *)
(* the tuple <<a, b, c, d>>; a squared magnitude is p + q*sqrt(2), kept as  *)
(* <<p, q>>; a quotient carries its denominator beside it.                  *)
(***************************************************************************)
EXTENDS Integers, Sequences, FiniteSets, TLC

(***************************************************************************)
(* Bounds of the model.                                                     *)
(***************************************************************************)
\* every image has a pixel sum of at most MaxSum (pixels are naturals)
MaxSum == 2
\* upsample_factor ranges over 1..MaxUps
MaxUps == 4

\* the image shapes of the numeric calls (1-D to 4-D, with and without
\* singleton axes)
Shapes ==
  { <<1>>, <<2>>, <<4>>, <<1, 2>>, <<2, 2>>, <<4, 1>>, <<2, 1, 2>>, <<1, 2, 1, 1>> }

\* the shapes of the calls on frequency-domain input (space="fourier")
FourierShapes == { <<1>>, <<2>>, <<1, 2>>, <<4>> }

\* the refinement patch has at most MaxPatch elements
MaxPatch == 256

(***************************************************************************)
(* Exact complex arithmetic in Z[z], z = exp(2*pi*i/8).                     *)
(***************************************************************************)
ZZero == <<0, 0, 0, 0>>

ZInt(n) == <<n, 0, 0, 0>>

ZAdd(x, y) == <<x[1] + y[1], x[2] + y[2], x[3] + y[3], x[4] + y[4]>>

ZNeg(x) == <<-x[1], -x[2], -x[3], -x[4]>>

\* product of polynomials in z, reduced by z^4 = -1
ZMul(x, y) ==
  << x[1]*y[1] - (x[2]*y[4] + x[3]*y[3] + x[4]*y[2]),
     x[1]*y[2] + x[2]*y[1] - (x[3]*y[4] + x[4]*y[3]),
     x[1]*y[3] + x[2]*y[2] + x[3]*y[1] - x[4]*y[4],
     x[1]*y[4] + x[2]*y[3] + x[3]*y[2] + x[4]*y[1] >>

\* complex conjugate: z -> z^-1 = -z^3
ZConj(x) == <<x[1], -x[4], -x[3], -x[2]>>

\* z^j
ZRoot(j) ==
  LET m == j % 8
      u == [i \in 1..4 |-> IF i = (m % 4) + 1 THEN 1 ELSE 0]
  IN  IF m < 4 THEN <<u[1], u[2], u[3], u[4]>> ELSE <<-u[1], -u[2], -u[3], -u[4]>>

\* x * conj(x) = p + q*sqrt(2) with sqrt(2) = z - z^3, as <<p, q>>
AbsSq(x) == LET m == ZMul(x, ZConj(x)) IN <<m[1], m[2]>>

\* sign of p + q*sqrt(2)
RSign(r) ==
  LET p == r[1]
      q == r[2]
  IN  IF p = 0 /\ q = 0 THEN 0
      ELSE IF p >= 0 /\ q >= 0 THEN 1
      ELSE IF p <= 0 /\ q <= 0 THEN -1
      ELSE IF p > 0 THEN (IF p * p > 2 * q * q THEN 1 ELSE -1)
      ELSE (IF 2 * q * q > p * p THEN 1 ELSE -1)

RSub(r, s) == <<r[1] - s[1], r[2] - s[2]>>

\* r < s for reals p + q*sqrt(2)
RLess(r, s) == RSign(RSub(s, r)) = 1

(***************************************************************************)
(* Arrays: a shape (sequence of axis lengths) and the elements in row-major *)
(* order, flat index 1..Size(shape); multi-indices are 0-based.             *)
(***************************************************************************)
RECURSIVE Prod(_)
Prod(s) == IF s = <<>> THEN 1 ELSE Head(s) * Prod(Tail(s))

Size(shape) == Prod(shape)

\* the array with every element evaluated (arrays are stored, not recomputed)
Stored(a) == SubSeq(a, 1, Len(a))

\* jnp.unravel_index of the 0-based flat index i
Unravel(i, shape) ==
  [d \in 1..Len(shape) |->
     (i \div Prod(SubSeq(shape, d + 1, Len(shape)))) % shape[d]]

RECURSIVE DotFrom(_, _, _)
DotFrom(a, b, d) == IF d > Len(a) THEN 0 ELSE a[d] * b[d] + DotFrom(a, b, d + 1)

\* 0-based flat index of the multi-index idx
Ravel(idx, shape) ==
  DotFrom(idx, [d \in 1..Len(shape) |-> Prod(SubSeq(shape, d + 1, Len(shape)))], 1)

RECURSIVE ZSumFrom(_, _)
ZSumFrom(a, i) == IF i > Len(a) THEN ZZero ELSE ZAdd(a[i], ZSumFrom(a, i + 1))

ZSum(a) == ZSumFrom(a, 1)

RECURSIVE SumFrom(_, _)
SumFrom(a, i) == IF i > Len(a) THEN 0 ELSE a[i] + SumFrom(a, i + 1)

Sum(a) == SumFrom(a, 1)

\* N-dimensional DFT sum with twiddle exp(sign*2*pi*i*k*n/N) on every axis
DftSum(a, shape, sign) ==
  LET idx == Stored([k \in 1..Size(shape) |->
                       Stored([d \in 1..Len(shape) |->
                                 (8 \div shape[d]) * Unravel(k - 1, shape)[d]])])
      pos == Stored([n \in 1..Size(shape) |-> Stored(Unravel(n - 1, shape))])
  IN  Stored([k \in 1..Size(shape) |->
        ZSum([n \in 1..Size(shape) |->
           ZMul(a[n], ZRoot(sign * DotFrom(idx[k], pos[n], 1)))])])

\* jax.numpy.fft.fftn
fftn(a, shape) == DftSum(a, shape, -1)

\* jax.numpy.fft.ifftn: the numerators; the values are these over Size(shape)
ifftn(a, shape) == DftSum(a, shape, 1)

(***************************************************************************)
(* Python values: None, an int, a str (its characters) or a list.           *)
(***************************************************************************)
PyNone == [t |-> "None", v |-> <<>>]

PyInt(n) == [t |-> "int", v |-> <<n>>]

PyStr(chars) == [t |-> "str", v |-> chars]

PyList(s) == [t |-> "list", v |-> s]

\* str.lower(), character by character
LowerChar(c) ==
  CASE c = "A" -> "a" [] c = "E" -> "e" [] c = "F" -> "f" [] c = "I" -> "i"
    [] c = "K" -> "k" [] c = "L" -> "l" [] c = "N" -> "n" [] c = "O" -> "o"
    [] c = "R" -> "r" [] c = "U" -> "u" [] OTHER -> c

\* a comparison that forgets to lower the string
LowerOmitted(s) == s

Lower(s) == PyStr([i \in 1..Len(s.v) |-> LowerChar(s.v[i])])

(***************************************************************************)
(* Element types.  x.real.dtype and jax.dtypes.result_type on the inexact   *)
(* element types: the promotion lattice is the chain                        *)
(* float16 < float32 < float64 and result_type is the join.                 *)
(***************************************************************************)
RealDtype(dt) ==
  CASE dt = "complex64" -> "float32"
    [] dt = "complex128" -> "float64"
    [] OTHER -> dt

FloatRank(dt) ==
  CASE dt = "float16" -> 1
    [] dt = "float32" -> 2
    [] dt = "float64" -> 3

result_type(a, b) == IF FloatRank(a) >= FloatRank(b) THEN a ELSE b

(***************************************************************************)
(* Steps of phase_cross_correlation on arrays.                              *)
(***************************************************************************)
\* image_product /= maximum(abs(image_product), 100 * eps) can be taken
\* exactly when the element is 0 or its argument is a multiple of 45 degrees
Normalizable(x) ==
  /\ x[2] = 0
  /\ x[4] = 0
  /\ \/ x[1] = 0
     \/ x[3] = 0
     \/ x[1] = x[3]
     \/ x[1] = -x[3]

\* x / maximum(abs(x), 100 * eps): a non-zero element of Z[i] has magnitude
\* at least 1 > 100 * eps and becomes the unit x / abs(x); 0 stays 0
PhaseNormalize(x) ==
  LET a == x[1]
      b == x[3]
  IN  IF a = 0 /\ b = 0 THEN ZZero
      ELSE IF b = 0 THEN (IF a > 0 THEN ZRoot(0) ELSE ZRoot(4))
      ELSE IF a = 0 THEN (IF b > 0 THEN ZRoot(2) ELSE ZRoot(6))
      ELSE IF a > 0 THEN (IF b > 0 THEN ZRoot(1) ELSE ZRoot(7))
      ELSE (IF b > 0 THEN ZRoot(3) ELSE ZRoot(5))

\* jnp.argmax(jnp.abs(a)): the first flat index (1-based here) of the
\* largest magnitude
ArgMaxAbs(a) ==
  LET m    == Stored([i \in 1..Len(a) |-> AbsSq(a[i])])
      vals == { m[i] : i \in 1..Len(a) }
      top  == CHOOSE v \in vals : \A w \in vals : ~RLess(v, w)
  IN  CHOOSE i \in 1..Len(a) : m[i] = top /\ \A j \in 1..(i - 1) : m[j] # top

\* sum(real(f * conj(f))) as p + q*sqrt(2)
SumAbsSq(f) ==
  <<Sum([i \in 1..Len(f) |-> AbsSq(f[i])[1]]),
    Sum([i \in 1..Len(f) |-> AbsSq(f[i])[2]])>>

RMul(r, s) == <<r[1]*s[1] + 2*r[2]*s[2], r[1]*s[2] + r[2]*s[1]>>

RScale(r, n) == <<r[1]*n, r[2]*n>>

(***************************************************************************)
(* _upsampled_dft                                                           *)
(***************************************************************************)
\* numerator of fftfreq(n, d)[j] = FftFreqNum(j, n) / (n * d)
FftFreqNum(j, n) == IF j <= (n - 1) \div 2 THEN j ELSE j - n

\* kernel[k, j] = exp(-2*pi*i * (k - ax_offset) * fftfreq(n_items, u)[j])
Kernel(n_items, ups_size, ax_offset, upsample_factor) ==
  Stored([k \in 1..ups_size |->
     Stored([j \in 1..n_items |->
        ZRoot(-((8 * ((k - 1) - ax_offset) * FftFreqNum(j - 1, n_items))
                \div (n_items * upsample_factor)))])])

\* a contraction that puts the kernel's row axis last instead of first
TensordotAppend(kernel, arr) ==
  LET n    == arr.shape[Len(arr.shape)]
      rest == SubSeq(arr.shape, 1, Len(arr.shape) - 1)
      m    == Prod(rest)
      r    == Len(kernel)
  IN  [shape |-> rest \o <<r>>,
       data  |-> Stored([f \in 1..(r * m) |->
                    ZSum([j \in 1..n |->
                       ZMul(kernel[((f - 1) % r) + 1][j],
                            arr.data[((f - 1) \div r) * n + j])])])]

\* jnp.tensordot(kernel, data, axes=(1, -1)): contracts the columns of the
\* kernel with the LAST axis of data; the kernel's row axis comes first
Tensordot(kernel, arr) ==
  LET n    == arr.shape[Len(arr.shape)]
      rest == SubSeq(arr.shape, 1, Len(arr.shape) - 1)
      m    == Prod(rest)
      r    == Len(kernel)
  IN  [shape |-> <<r>> \o rest,
       data  |-> Stored([f \in 1..(r * m) |->
                    ZSum([j \in 1..n |->
                       ZMul(kernel[((f - 1) \div m) + 1][j],
                            arr.data[((f - 1) % m) * n + j])])])]

\* the loop over dim_properties[::-1]; i counts the axes still to process
RECURSIVE UpsampledLoop(_, _, _, _)
UpsampledLoop(arr, props, upsample_factor, i) ==
  IF i = 0 THEN arr
  ELSE UpsampledLoop(
         Tensordot(Kernel(props[i][1], props[i][2], props[i][3], upsample_factor),
                   arr),
         props, upsample_factor, i - 1)

\* _upsampled_dft(data, upsampled_region_size, upsample_factor, axis_offsets)
\* data is [shape, data]; the size is a PyInt or a PyList, the offsets PyNone
\* or a PyList.  The result is [raised, shape, data].
UpsampledDft(arr, upsampled_region_size, upsample_factor, axis_offsets) ==
  LET ndim  == Len(arr.shape)
      sizes == IF upsampled_region_size.t = "int"
               THEN [d \in 1..ndim |-> upsampled_region_size.v[1]]
               ELSE upsampled_region_size.v
      offs  == IF axis_offsets.t = "None"
               THEN [d \in 1..ndim |-> 0]
               ELSE axis_offsets.v
      props == [d \in 1..ndim |-> <<arr.shape[d], sizes[d], offs[d]>>]
  IN  IF upsampled_region_size.t # "int" /\ Len(upsampled_region_size.v) # ndim
      THEN [raised |-> "ValueError", shape |-> <<>>, data |-> <<>>]
      ELSE IF axis_offsets.t # "None" /\ Len(axis_offsets.v) # ndim
      THEN [raised |-> "ValueError", shape |-> <<>>, data |-> <<>>]
      ELSE LET out == UpsampledLoop(arr, props, upsample_factor, ndim)
           IN  [raised |-> "no", shape |-> out.shape, data |-> out.data]

(***************************************************************************)
(* _compute_error and _compute_phasediff                                    *)
(***************************************************************************)
\* the error with the commented-out amp == 0 branch turned into a result of 0
ComputeErrorZeroAmp(cross_correlation_max, src_amp, target_amp) ==
  LET cc2  == AbsSq(cross_correlation_max.num)
      ccd  == cross_correlation_max.den * cross_correlation_max.den
      amp  == RMul(src_amp.num, target_amp.num)
      ampd == src_amp.den * target_amp.den
      den  == RScale(amp, ccd)
      num  == RSub(den, RScale(cc2, ampd))
  IN  IF RSign(amp) = 0
      THEN [kind |-> "finite", num |-> <<0, 0>>, den |-> <<1, 0>>]
      ELSE [kind |-> "finite",
            num  |-> IF RSign(num) < 0 THEN RSub(<<0, 0>>, num) ELSE num,
            den  |-> den]

\* sqrt(abs(1 - CCmax * conj(CCmax) / amp)), amp = src_amp * target_amp.
\* CCmax is [num, den], the amplitudes are [num, den] with num = p + q*sqrt(2).
\* The result is [kind, num, den]: the SQUARE of a finite error is
\* abs(num) / den; a division 0/0 gives "nan", x/0 (x # 0) gives "inf".
ComputeError(cross_correlation_max, src_amp, target_amp) ==
  LET cc2  == AbsSq(cross_correlation_max.num)
      ccd  == cross_correlation_max.den * cross_correlation_max.den
      amp  == RMul(src_amp.num, target_amp.num)
      ampd == src_amp.den * target_amp.den
      den  == RScale(amp, ccd)
      num  == RSub(den, RScale(cc2, ampd))
  IN  IF RSign(amp) = 0
      THEN (IF RSign(cc2) = 0
            THEN [kind |-> "nan", num |-> <<0, 0>>, den |-> <<0, 0>>]
            ELSE [kind |-> "inf", num |-> <<0, 0>>, den |-> <<0, 0>>])
      ELSE [kind |-> "finite",
            num  |-> IF RSign(num) < 0 THEN RSub(<<0, 0>>, num) ELSE num,
            den  |-> den]

\* arctan2(imag, real) of CCmax, given by the pair it is the angle of:
\* y = 2 * imag and x = 2 * real as p + q*sqrt(2)
ComputePhasediff(cross_correlation_max) ==
  LET c == cross_correlation_max.num
  IN  [y |-> <<2 * c[3], c[2] + c[4]>>, x |-> <<2 * c[1], c[2] - c[4]>>]

(***************************************************************************)
(* The calls.  An image is [shape, dtype, data] with integer pixels in      *)
(* row-major order.                                                         *)
(***************************************************************************)
Image(shape, dtype, data) == [shape |-> shape, dtype |-> dtype, data |-> data]

ImagesOf(shape) ==
  { a \in [1..Size(shape) -> 0..MaxSum] : Sum(a) <= MaxSum }

StrReal == PyStr(<<"r", "e", "a", "l">>)

StrFourier == PyStr(<<"f", "o", "u", "r", "i", "e", "r">>)

StrPhase == PyStr(<<"p", "h", "a", "s", "e">>)

SpaceValues ==
  { StrReal, StrFourier,
    PyStr(<<"R", "e", "a", "l">>),
    PyStr(<<"F", "O", "U", "R", "I", "E", "R">>),
    PyStr(<<"f", "r", "a", "n", "k">>) }

NormalizationValues ==
  { StrPhase, PyNone,
    PyStr(<<"P", "h", "a", "s", "e">>),
    PyStr(<<"n", "o", "n", "e", "x", "i", "s", "t", "i", "n", "g">>) }

\* a mask is None or an array; its content is never read
MaskValues == { PyNone, PyList(<<1, 1>>) }

Dtypes == { "float16", "float32", "float64", "complex64", "complex128" }

Call(ref, mov, u, space, dis, rmask, mmask, norm) ==
  [reference_image |-> ref, moving_image |-> mov, upsample_factor |-> u,
   space |-> space, disambiguate |-> dis, reference_mask |-> rmask,
   moving_mask |-> mmask, normalization |-> norm]

RECURSIVE Power(_, _)
Power(b, e) == IF e = 0 THEN 1 ELSE b * Power(b, e - 1)

\* ceil(upsample_factor * 1.5)
RegionSize(u) == (3 * u + 1) \div 2

\* the frequency-domain arrays of a call whose space is valid
FreqOf(img, space) ==
  LET z == Stored([i \in 1..Len(img.data) |-> ZInt(img.data[i])])
  IN  IF Lower(space) = StrFourier THEN z ELSE fftn(z, img.shape)

\* the call stays within the exact arithmetic: kernel entries are powers of
\* z, and phase normalization meets only arguments that are multiples of 45
\* degrees
ExactKernel(sh, u) ==
  /\ u # 1 => Power(RegionSize(u), Len(sh)) <= MaxPatch
  /\ \A d \in 1..Len(sh) :
       \/ sh[d] = 1
       \/ u = 1
       \/ 8 % (sh[d] * u) = 0

ExactPhase(ref, mov, space) ==
  LET f == FreqOf(ref, space)
      g == FreqOf(mov, space)
  IN  \A i \in 1..Len(f) : Normalizable(ZMul(f[i], ZConj(g[i])))

\* calls that exercise the argument checks: every combination of the static
\* arguments on equal and on unequal shapes
ArgumentCalls ==
  { Call(Image(<<2>>, "float32", <<1, 1>>), mov, u, sp, dis, rm, mm, nm) :
      mov \in { Image(<<2>>, "float32", <<1, 1>>),
                Image(<<1>>, "float32", <<1>>),
                Image(<<2, 1>>, "float32", <<1, 1>>) },
      u \in 1..2, sp \in SpaceValues, dis \in BOOLEAN,
      rm \in MaskValues, mm \in MaskValues, nm \in NormalizationValues }

\* calls on every pair of element types
DtypeCalls ==
  { Call(Image(<<2>>, dr, <<1, 0>>), Image(<<2>>, dm, <<0, 1>>), u,
         StrReal, FALSE, PyNone, PyNone, StrPhase) :
      dr \in Dtypes, dm \in Dtypes, u \in 1..2 }

\* valid calls on every pair of images of every shape
IsNumericCall(c) ==
  \E sp \in {StrReal, StrFourier} :
    \E sh \in (IF sp = StrFourier THEN FourierShapes ELSE Shapes) :
      \E r \in ImagesOf(sh), m \in ImagesOf(sh) :
        \E phase \in {ExactPhase(Image(sh, "float32", r),
                                 Image(sh, "float32", m), sp)} :
          \E u \in {k \in 1..MaxUps : ExactKernel(sh, k)},
             nm \in {StrPhase, PyNone} :
            IF nm = StrPhase => phase
            THEN c = Call(Image(sh, "float32", r), Image(sh, "float32", m), u,
                          sp, FALSE, PyNone, PyNone, nm)
            ELSE FALSE

(***************************************************************************)
(* State of one call of phase_cross_correlation.                            *)
(***************************************************************************)
VARIABLES
  call,              \* the arguments
  pc,                \* the statement about to run
  float_dtype,
  src_freq,
  target_freq,
  image_product,
  cross_correlation, \* [shape, data, den]: the values are data / den
  maxima,
  shift,             \* [num, den, dtype]: the components are num[d] / den
  CCmax,             \* [num, den]
  src_amp,           \* [num, den], num = p + q*sqrt(2)
  target_amp,
  executed,          \* the numeric steps executed so far
  outcome,           \* [kind, shift, error, phasediff]
  dft                \* the state of a direct call of _upsampled_dft

vars ==
  <<call, pc, float_dtype, src_freq, target_freq, image_product,
    cross_correlation, maxima, shift, CCmax, src_amp, target_amp, executed,
    outcome, dft>>

\* no direct call of _upsampled_dft is in progress
NoDft == [pc |-> "none"]

NoShift == [num |-> <<>>, den |-> 1, dtype |-> ""]

NoError == [kind |-> "none", num |-> <<0, 0>>, den |-> <<0, 0>>]

NoPhasediff == [y |-> <<0, 0>>, x |-> <<0, 0>>]

Pending ==
  [kind |-> "pending", shift |-> NoShift, error |-> NoError,
   phasediff |-> NoPhasediff]

Raised(exc) ==
  [kind |-> exc, shift |-> NoShift, error |-> NoError,
   phasediff |-> NoPhasediff]

Init ==
  /\ \/ call \in ArgumentCalls
     \/ call \in DtypeCalls
     \/ IsNumericCall(call)
  /\ pc = "masks"
  /\ float_dtype = ""
  /\ src_freq = <<>>
  /\ target_freq = <<>>
  /\ image_product = <<>>
  /\ cross_correlation = [shape |-> <<>>, data |-> <<>>, den |-> 1]
  /\ maxima = <<>>
  /\ shift = NoShift
  /\ CCmax = [num |-> ZZero, den |-> 1]
  /\ src_amp = [num |-> <<0, 0>>, den |-> 1]
  /\ target_amp = [num |-> <<0, 0>>, den |-> 1]
  /\ executed = {}
  /\ outcome = Pending
  /\ dft = NoDft

shape == call.reference_image.shape

\* the condition of line 203, as a mask check that looks at one mask only
\* would take it
MasksGivenReferenceOnly(c) == c.reference_mask # PyNone

\* line 203: (reference_mask is not None) or (moving_mask is not None)
MasksGiven(c) == (c.reference_mask # PyNone) \/ (c.moving_mask # PyNone)

\* line 203-204
CheckMasksRaise ==
  /\ pc = "masks"
  /\ MasksGiven(call)
  /\ pc' = "done"
  /\ outcome' = Raised("NotImplementedError")
  /\ UNCHANGED <<dft, call, float_dtype, src_freq, target_freq, image_product,
                 cross_correlation, maxima, shift, CCmax, src_amp, target_amp,
                 executed>>

\* line 203-205
CheckMasksPass ==
  /\ pc = "masks"
  /\ ~MasksGiven(call)
  /\ float_dtype' = result_type(RealDtype(call.reference_image.dtype),
                                RealDtype(call.moving_image.dtype))
  /\ pc' = "shape"
  /\ UNCHANGED <<dft, call, src_freq, target_freq, image_product, cross_correlation,
                 maxima, shift, CCmax, src_amp, target_amp, executed, outcome>>

\* line 208-212
CheckShapeRaise ==
  /\ pc = "shape"
  /\ call.reference_image.shape # call.moving_image.shape
  /\ pc' = "done"
  /\ outcome' = Raised("ValueError")
  /\ UNCHANGED <<dft, call, float_dtype, src_freq, target_freq, image_product,
                 cross_correlation, maxima, shift, CCmax, src_amp, target_amp,
                 executed>>

CheckShapePass ==
  /\ pc = "shape"
  /\ call.reference_image.shape = call.moving_image.shape
  /\ pc' = "space"
  /\ UNCHANGED <<dft, call, float_dtype, src_freq, target_freq, image_product,
                 cross_correlation, maxima, shift, CCmax, src_amp, target_amp,
                 executed, outcome>>

AsArray(img) == Stored([i \in 1..Len(img.data) |-> ZInt(img.data[i])])

\* line 215-217
SpaceFourier ==
  /\ pc = "space"
  /\ Lower(call.space) = StrFourier
  /\ src_freq' = AsArray(call.reference_image)
  /\ target_freq' = AsArray(call.moving_image)
  /\ pc' = "product"
  /\ UNCHANGED <<dft, call, float_dtype, image_product, cross_correlation, maxima,
                 shift, CCmax, src_amp, target_amp, executed, outcome>>

\* line 219-221
SpaceReal ==
  /\ pc = "space"
  /\ Lower(call.space) # StrFourier
  /\ Lower(call.space) = StrReal
  /\ src_freq' = fftn(AsArray(call.reference_image), shape)
  /\ target_freq' = fftn(AsArray(call.moving_image), shape)
  /\ executed' = executed \cup {"fftn"}
  /\ pc' = "product"
  /\ UNCHANGED <<dft, call, float_dtype, image_product, cross_correlation, maxima,
                 shift, CCmax, src_amp, target_amp, outcome>>

\* line 222-223
SpaceRaise ==
  /\ pc = "space"
  /\ Lower(call.space) # StrFourier
  /\ Lower(call.space) # StrReal
  /\ pc' = "done"
  /\ outcome' = Raised("ValueError")
  /\ UNCHANGED <<dft, call, float_dtype, src_freq, target_freq, image_product,
                 cross_correlation, maxima, shift, CCmax, src_amp, target_amp,
                 executed>>

\* line 226
ImageProduct ==
  /\ pc = "product"
  /\ image_product' =
       [i \in 1..Len(src_freq) |-> ZMul(src_freq[i], ZConj(target_freq[i]))]
  /\ executed' = executed \cup {"product"}
  /\ pc' = "normalization"
  /\ UNCHANGED <<dft, call, float_dtype, src_freq, target_freq, cross_correlation,
                 maxima, shift, CCmax, src_amp, target_amp, outcome>>

\* line 228-230
NormalizePhase ==
  /\ pc = "normalization"
  /\ call.normalization = StrPhase
  /\ image_product' =
       [i \in 1..Len(image_product) |-> PhaseNormalize(image_product[i])]
  /\ executed' = executed \cup {"normalize"}
  /\ pc' = "ifftn"
  /\ UNCHANGED <<dft, call, float_dtype, src_freq, target_freq, cross_correlation,
                 maxima, shift, CCmax, src_amp, target_amp, outcome>>

\* line 231: normalization is None
NormalizeNone ==
  /\ pc = "normalization"
  /\ call.normalization # StrPhase
  /\ call.normalization = PyNone
  /\ pc' = "ifftn"
  /\ UNCHANGED <<dft, call, float_dtype, src_freq, target_freq, image_product,
                 cross_correlation, maxima, shift, CCmax, src_amp, target_amp,
                 executed, outcome>>

\* line 231-232
NormalizationRaise ==
  /\ pc = "normalization"
  /\ call.normalization # StrPhase
  /\ call.normalization # PyNone
  /\ pc' = "done"
  /\ outcome' = Raised("ValueError")
  /\ UNCHANGED <<dft, call, float_dtype, src_freq, target_freq, image_product,
                 cross_correlation, maxima, shift, CCmax, src_amp, target_amp,
                 executed>>

\* line 234
InverseDft ==
  /\ pc = "ifftn"
  /\ cross_correlation' =
       [shape |-> shape, data |-> ifftn(image_product, shape),
        den |-> Size(shape)]
  /\ executed' = executed \cup {"ifftn"}
  /\ pc' = "locate"
  /\ UNCHANGED <<dft, call, float_dtype, src_freq, target_freq, image_product,
                 maxima, shift, CCmax, src_amp, target_amp, outcome>>

\* the wrap with >= in place of >
WrapShiftAtMidpoint(mx, sh) ==
  [d \in 1..Len(sh) |-> IF mx[d] >= sh[d] \div 2 THEN mx[d] - sh[d] ELSE mx[d]]

\* the peak index taken as the shift, without the wrap
WrapShiftOmitted(mx, sh) == mx

\* shift = where(shift > midpoint, shift - shape, shift), midpoint = floor(shape / 2)
WrapShift(mx, sh) ==
  [d \in 1..Len(sh) |-> IF mx[d] > sh[d] \div 2 THEN mx[d] - sh[d] ELSE mx[d]]

\* line 237-244
LocateMaximum ==
  /\ pc = "locate"
  /\ \E mx \in {Unravel(ArgMaxAbs(cross_correlation.data) - 1,
                          cross_correlation.shape)} :
       /\ maxima' = mx
       /\ shift' = [num |-> WrapShift(mx, shape), den |-> 1,
                    dtype |-> float_dtype]
  /\ executed' = executed \cup {"argmax"}
  /\ pc' = "branch"
  /\ UNCHANGED <<dft, call, float_dtype, src_freq, target_freq, image_product,
                 cross_correlation, CCmax, src_amp, target_amp, outcome>>

\* line 246-251
PixelBranch ==
  /\ pc = "branch"
  /\ call.upsample_factor = 1
  /\ src_amp' = [num |-> SumAbsSq(src_freq), den |-> Len(src_freq)]
  /\ target_amp' = [num |-> SumAbsSq(target_freq), den |-> Len(target_freq)]
  /\ CCmax' = [num |-> cross_correlation.data[Ravel(maxima, shape) + 1],
               den |-> cross_correlation.den]
  /\ pc' = "singleton"
  /\ UNCHANGED <<dft, call, float_dtype, src_freq, target_freq, image_product,
                 cross_correlation, maxima, shift, executed, outcome>>

\* jnp.round(a / b): to the nearest integer, halves to the even one (b > 0)
RoundHalfEven(a, b) ==
  LET q == a \div b
      r == a % b
  IN  IF 2 * r < b THEN q
      ELSE IF 2 * r > b THEN q + 1
      ELSE IF q % 2 = 0 THEN q ELSE q + 1

\* the centre rounded up instead of down
DftShiftCeil(u) == (RegionSize(u) + 1) \div 2

\* floor(upsampled_region_size / 2.0)
DftShift(u) == RegionSize(u) \div 2

\* line 255-275: the refined cross_correlation patch, its maximum and the
\* refined shift
Refine(product, sh, sft, u) ==
  LET rounded == Stored([d \in 1..Len(sh) |->
                           RoundHalfEven(sft.num[d] * u, sft.den)])
      offset  == Stored([d \in 1..Len(sh) |-> DftShift(u) - rounded[d]])
      up      == UpsampledDft(
                   [shape |-> sh,
                    data  |-> Stored([i \in 1..Len(product) |->
                                        ZConj(product[i])])],
                   PyInt(RegionSize(u)), u, PyList(offset))
      patch   == Stored([i \in 1..Len(up.data) |-> ZConj(up.data[i])])
      mx      == Stored(Unravel(ArgMaxAbs(patch) - 1, up.shape))
  IN  [cross_correlation |-> [shape |-> up.shape, data |-> patch, den |-> 1],
       maxima |-> mx,
       CCmax  |-> [num |-> patch[Ravel(mx, up.shape) + 1], den |-> 1],
       shift  |-> [num |-> [d \in 1..Len(sh) |->
                              rounded[d] + (mx[d] - DftShift(u))],
                   den |-> u, dtype |-> sft.dtype]]

\* line 253-278
RefineBranch ==
  /\ pc = "branch"
  /\ call.upsample_factor # 1
  /\ \E r \in {Refine(image_product, shape, shift, call.upsample_factor)} :
       /\ cross_correlation' = r.cross_correlation
       /\ maxima' = r.maxima
       /\ CCmax' = r.CCmax
       /\ shift' = r.shift
  /\ src_amp' = [num |-> SumAbsSq(src_freq), den |-> 1]
  /\ target_amp' = [num |-> SumAbsSq(target_freq), den |-> 1]
  /\ executed' = executed \cup {"upsampled_dft", "argmax"}
  /\ pc' = "singleton"
  /\ UNCHANGED <<dft, call, float_dtype, src_freq, target_freq, image_product,
                 outcome>>

\* line 280 left out: the shift passes unchanged
SingletonAxesOmitted ==
  /\ pc = "singleton"
  /\ pc' = "disambiguate"
  /\ UNCHANGED <<dft, call, float_dtype, src_freq, target_freq, image_product,
                 cross_correlation, maxima, shift, CCmax, src_amp, target_amp,
                 executed, outcome>>

\* line 280
SingletonAxes ==
  /\ pc = "singleton"
  /\ shift' = [shift EXCEPT !.num =
                 [d \in 1..Len(shape) |-> IF shape[d] = 1 THEN 0 ELSE shift.num[d]]]
  /\ pc' = "disambiguate"
  /\ UNCHANGED <<dft, call, float_dtype, src_freq, target_freq, image_product,
                 cross_correlation, maxima, CCmax, src_amp, target_amp,
                 executed, outcome>>

\* line 282-283
DisambiguateRaise ==
  /\ pc = "disambiguate"
  /\ call.disambiguate
  /\ pc' = "done"
  /\ outcome' = Raised("NotImplementedError")
  /\ UNCHANGED <<dft, call, float_dtype, src_freq, target_freq, image_product,
                 cross_correlation, maxima, shift, CCmax, src_amp, target_amp,
                 executed>>

\* line 289-291
Return ==
  /\ pc = "disambiguate"
  /\ ~call.disambiguate
  /\ outcome' = [kind |-> "returned", shift |-> shift,
                 error |-> ComputeError(CCmax, src_amp, target_amp),
                 phasediff |-> ComputePhasediff(CCmax)]
  /\ pc' = "done"
  /\ UNCHANGED <<dft, call, float_dtype, src_freq, target_freq, image_product,
                 cross_correlation, maxima, shift, CCmax, src_amp, target_amp,
                 executed>>

Next ==
  \/ CheckMasksRaise
  \/ CheckMasksPass
  \/ CheckShapeRaise
  \/ CheckShapePass
  \/ SpaceFourier
  \/ SpaceReal
  \/ SpaceRaise
  \/ ImageProduct
  \/ NormalizePhase
  \/ NormalizeNone
  \/ NormalizationRaise
  \/ InverseDft
  \/ LocateMaximum
  \/ PixelBranch
  \/ RefineBranch
  \/ SingletonAxes
  \/ DisambiguateRaise
  \/ Return

Spec == Init /\ [][Next]_vars

(***************************************************************************)
(* A direct call of _upsampled_dft, statement by statement.  The record    *)
(* dft holds the arguments (args), the locals the code rebinds (data,      *)
(* upsampled_region_size, axis_offsets, dim_properties), the number i of   *)
(* loop iterations still to run, and three histories: the origin of every  *)
(* axis of data (axes), the iterations run so far (steps) and the number   *)
(* of kernels built (kernels).                                             *)
(***************************************************************************)
\* the largest region size of a direct call
MaxRegion == 3

DftShapes ==
  { <<2>>, <<1, 2>>, <<2, 1>>, <<2, 2>>, <<2, 4>>, <<4, 2>>,
    <<1, 2, 4>>, <<4, 1, 2>> }

\* upsample factors for which every kernel entry is a power of z
DftUpsampleFactors == {1, 2}

OffsetValues == {-1, 1}

\* the sequences over S whose length is ndim - 1, ndim or ndim + 1
ListsAround(S, ndim) ==
  { PyList(Stored(s)) : s \in UNION { [1..n -> S] : n \in (ndim - 1)..(ndim + 1) } }

RegionSizeValues(ndim) ==
  { PyInt(n) : n \in 1..MaxRegion } \cup ListsAround(1..MaxRegion, ndim)

AxisOffsetValues(ndim) == { PyNone } \cup ListsAround(OffsetValues, ndim)

DftData(sh) ==
  [shape |-> sh, data |-> Stored([i \in 1..Size(sh) |-> <<i, 0, 1, 0>>])]

DftArgs(data, size, u, offsets) ==
  [data |-> data, upsampled_region_size |-> size, upsample_factor |-> u,
   axis_offsets |-> offsets]

\* no call of phase_cross_correlation is in progress
NoCall ==
  /\ call = PyNone
  /\ pc = "none"
  /\ float_dtype = ""
  /\ src_freq = <<>>
  /\ target_freq = <<>>
  /\ image_product = <<>>
  /\ cross_correlation = [shape |-> <<>>, data |-> <<>>, den |-> 1]
  /\ maxima = <<>>
  /\ shift = NoShift
  /\ CCmax = [num |-> ZZero, den |-> 1]
  /\ src_amp = [num |-> <<0, 0>>, den |-> 1]
  /\ target_amp = [num |-> <<0, 0>>, den |-> 1]
  /\ executed = {}
  /\ outcome = Pending

call_vars ==
  <<call, pc, float_dtype, src_freq, target_freq, image_product,
    cross_correlation, maxima, shift, CCmax, src_amp, target_amp, executed,
    outcome>>

DftInit ==
  /\ NoCall
  /\ \E sh \in DftShapes, u \in DftUpsampleFactors :
       \E size \in RegionSizeValues(Len(sh)),
          offsets \in AxisOffsetValues(Len(sh)) :
         dft = [pc |-> "region",
                args |-> DftArgs(DftData(sh), size, u, offsets),
                data |-> DftData(sh),
                upsampled_region_size |-> size,
                axis_offsets |-> offsets,
                dim_properties |-> <<>>,
                i |-> 0,
                axes |-> [d \in 1..Len(sh) |-> <<"data", d>>],
                steps |-> <<>>,
                kernels |-> 0,
                raised |-> "no"]

\* data.ndim of the data argument
ndim == Len(dft.args.data.shape)

\* a length test that lets a sequence shorter than data.ndim pass
LengthExceeds(seq, n) == Len(seq.v) > n

\* line 50 and line 61: len(...) != data.ndim
LengthDiffers(seq, n) == Len(seq.v) # n

\* line 46-49: an integer is expanded to a list of data.ndim equal sizes
RegionSizeBroadcast ==
  /\ dft.pc = "region"
  /\ dft.upsampled_region_size.t = "int"
  /\ dft' = [dft EXCEPT
               !.upsampled_region_size =
                  PyList([d \in 1..ndim |-> dft.upsampled_region_size.v[1]]),
               !.pc = "offsets"]
  /\ UNCHANGED call_vars

\* line 50-54
RegionSizeRaise ==
  /\ dft.pc = "region"
  /\ dft.upsampled_region_size.t # "int"
  /\ LengthDiffers(dft.upsampled_region_size, ndim)
  /\ dft' = [dft EXCEPT !.pc = "done", !.raised = "ValueError"]
  /\ UNCHANGED call_vars

\* line 46, 50: a sequence of the right length passes
RegionSizePass ==
  /\ dft.pc = "region"
  /\ dft.upsampled_region_size.t # "int"
  /\ ~LengthDiffers(dft.upsampled_region_size, ndim)
  /\ dft' = [dft EXCEPT !.pc = "offsets"]
  /\ UNCHANGED call_vars

\* line 57-60: None becomes a zero per axis
OffsetsDefault ==
  /\ dft.pc = "offsets"
  /\ dft.axis_offsets = PyNone
  /\ dft' = [dft EXCEPT !.axis_offsets = PyList([d \in 1..ndim |-> 0]),
                        !.pc = "zip"]
  /\ UNCHANGED call_vars

\* line 61-66
OffsetsRaise ==
  /\ dft.pc = "offsets"
  /\ dft.axis_offsets # PyNone
  /\ LengthDiffers(dft.axis_offsets, ndim)
  /\ dft' = [dft EXCEPT !.pc = "done", !.raised = "ValueError"]
  /\ UNCHANGED call_vars

\* line 57, 61: offsets of the right length pass
OffsetsPass ==
  /\ dft.pc = "offsets"
  /\ dft.axis_offsets # PyNone
  /\ ~LengthDiffers(dft.axis_offsets, ndim)
  /\ dft' = [dft EXCEPT !.pc = "zip"]
  /\ UNCHANGED call_vars

Min(a, b) == IF a <= b THEN a ELSE b

\* zip(a, b, c): as long as the shortest of the three
Zip(a, b, c) ==
  [d \in 1..Min(Len(a), Min(Len(b), Len(c))) |-> <<a[d], b[d], c[d]>>]

\* line 70
DimProperties ==
  /\ dft.pc = "zip"
  /\ \E props \in {Zip(dft.data.shape, dft.upsampled_region_size.v,
                        dft.axis_offsets.v)} :
       dft' = [dft EXCEPT !.dim_properties = props, !.i = Len(props),
                          !.pc = "loop"]
  /\ UNCHANGED call_vars

\* line 72-82: one iteration of the loop over dim_properties[::-1].  The
\* contraction needs the kernel's columns to be as many as the entries of
\* the last axis of data; jnp.tensordot raises a TypeError otherwise.
LoopStep ==
  /\ dft.pc = "loop"
  /\ dft.i > 0
  /\ LET p    == dft.dim_properties[dft.i]
         last == Len(dft.data.shape)
     IN  IF dft.data.shape[last] # p[1]
         THEN dft' = [dft EXCEPT !.pc = "done", !.raised = "TypeError",
                                 !.kernels = @ + 1]
         ELSE \E out \in {Tensordot(Kernel(p[1], p[2], p[3],
                                           dft.args.upsample_factor),
                                    dft.data)} :
                dft' = [dft EXCEPT
                          !.data = out,
                          !.i = @ - 1,
                          !.kernels = @ + 1,
                          !.axes = <<<<"region", dft.i>>>> \o SubSeq(@, 1, last - 1),
                          !.steps = Append(@,
                             [d |-> dft.i, n_items |-> p[1], ups_size |-> p[2],
                              contracted |-> dft.axes[last],
                              length |-> dft.data.shape[last],
                              shape |-> out.shape])]
  /\ UNCHANGED call_vars

\* line 83
LoopReturn ==
  /\ dft.pc = "loop"
  /\ dft.i = 0
  /\ dft' = [dft EXCEPT !.pc = "done"]
  /\ UNCHANGED call_vars

DftNext ==
  \/ RegionSizeBroadcast
  \/ RegionSizeRaise
  \/ RegionSizePass
  \/ OffsetsDefault
  \/ OffsetsRaise
  \/ OffsetsPass
  \/ DimProperties
  \/ LoopStep
  \/ LoopReturn

DftSpec == DftInit /\ [][DftNext]_vars

(***************************************************************************)
(* Properties.                                                              *)
(***************************************************************************)
Done == pc = "done"

Returned == pc = "done" /\ outcome.kind = "returned"

Failed == pc = "done" /\ outcome.kind \in {"NotImplementedError", "ValueError"}

SameShape == call.reference_image.shape = call.moving_image.shape

\* the space strings that compare equal to "real" or "fourier" without case
AcceptedSpaces ==
  { PyStr(<<"r", "e", "a", "l">>), PyStr(<<"R", "e", "a", "l">>),
    PyStr(<<"f", "o", "u", "r", "i", "e", "r">>),
    PyStr(<<"F", "O", "U", "R", "I", "E", "R">>) }

AcceptedNormalizations == { PyStr(<<"p", "h", "a", "s", "e">>), PyNone }

\* C1: a call with disambiguate=True and both masks None always ends in
\* NotImplementedError, whatever the other arguments are.
C1_DisambiguateAlwaysNotImplemented ==
  (Done /\ call.disambiguate /\ call.reference_mask = PyNone
        /\ call.moving_mask = PyNone)
    => outcome.kind = "NotImplementedError"

\* C2: whenever a call ends in a failure, no numeric step (forward DFT,
\* product, normalization, inverse DFT, peak search, refinement) has run.
C2_FailureBeforeNumericWork == Failed => executed = {}

Roll(a, sh, s) ==
  [n \in 1..Len(a) |->
     a[Ravel([d \in 1..Len(sh) |-> (Unravel(n - 1, sh)[d] - s[d]) % sh[d]],
             sh) + 1]]

\* the integer shift vectors with every |s[d]| below half the axis length
ShiftsOf(sh) ==
  { s \in [1..Len(sh) -> -2..2] :
      \A d \in 1..Len(sh) : 2 * s[d] < sh[d] /\ -2 * s[d] < sh[d] }

\* the non-trivial circular translations of an array of shape sh
Translations(sh) ==
  { t \in [1..Len(sh) -> 0..3] :
      /\ \A d \in 1..Len(sh) : t[d] < sh[d]
      /\ \E d \in 1..Len(sh) : t[d] # 0 }

\* the image differs from each of its non-trivial circular translates
NoTranslationSymmetry(img) ==
  \A t \in Translations(img.shape) : Roll(img.data, img.shape, t) # img.data

PixelPrecisionCall ==
  /\ Returned
  /\ call.upsample_factor = 1
  /\ call.space = PyStr(<<"r", "e", "a", "l">>)

RecoversShift(s) ==
  call.moving_image.data = Roll(call.reference_image.data, shape, s)
    => outcome.shift.num = [d \in 1..Len(shape) |-> -s[d]] /\ outcome.shift.den = 1

InHalfOpenRange(num, den, n) == -(n * den) < 2 * num /\ 2 * num <= n * den

C7_IdenticalImagesZeroShiftZeroError ==
  (Returned /\ call.reference_image.data = call.moving_image.data
            /\ Sum(call.reference_image.data) # 0)
    => /\ \A d \in 1..Len(shape) : outcome.shift.num[d] = 0
       /\ outcome.error.kind = "finite"
       /\ outcome.error.num = <<0, 0>>

\* C8: line 280 sets the shift of every axis of size 1 to 0 and leaves the
\* other components as computed, and the returned shift is that shift.
C8_SingletonAxesForcedToZero ==
  [][ /\ pc = "singleton" =>
           /\ shift'.den = shift.den
           /\ \A d \in 1..Len(shape) :
                shift'.num[d] = IF shape[d] = 1 THEN 0 ELSE shift.num[d]
      /\ (pc = "disambiguate" /\ outcome'.kind = "returned") =>
           outcome'.shift = shift ]_vars

\* in the refinement branch the patch maximum lay off the centre on a
\* singleton axis, so the computed component was not 0, and the returned
\* one is 0 next to a non-zero component of another axis
C8_Witness ==
  /\ Returned
  /\ call.upsample_factor # 1
  /\ \E d \in 1..Len(shape) :
       /\ shape[d] = 1
       /\ maxima[d] # DftShift(call.upsample_factor)
       /\ outcome.shift.num[d] = 0
  /\ \E d \in 1..Len(shape) : shape[d] # 1 /\ outcome.shift.num[d] # 0

AmpIsZero == RSign(RMul(src_amp.num, target_amp.num)) = 0

\* C9: a valid call on images of which one has zero intensity does not
\* raise; the returned error is NaN exactly when amp = src_amp * target_amp
\* is 0, and otherwise a finite non-negative real.
C9_ZeroAmplitudeGivesNaN ==
  /\ (Done /\ call.reference_mask = PyNone /\ call.moving_mask = PyNone
        /\ ~call.disambiguate /\ SameShape
        /\ call.space \in AcceptedSpaces
        /\ call.normalization \in AcceptedNormalizations
        /\ (Sum(call.reference_image.data) = 0
              \/ Sum(call.moving_image.data) = 0))
       => /\ outcome.kind = "returned"
          /\ AmpIsZero
  /\ Returned =>
       IF AmpIsZero
       THEN outcome.error.kind = "nan"
       ELSE /\ outcome.error.kind = "finite"
            /\ RSign(outcome.error.num) >= 0
            /\ RSign(outcome.error.den) > 0

\* the refinement branch under phase normalization on an empty moving
\* image has returned a NaN error
C9_Witness ==
  /\ Returned
  /\ call.upsample_factor # 1
  /\ call.normalization = PyStr(<<"p", "h", "a", "s", "e">>)
  /\ Sum(call.reference_image.data) # 0
  /\ Sum(call.moving_image.data) = 0
  /\ outcome.error.kind = "nan"

\* the wider of two element types, at least single precision
WiderAtLeastSingle(a, b) ==
  IF {a, b} \cap {"float64", "complex128"} # {} THEN "float64" ELSE "float32"

\* C10: the element type of the returned shift is the wider of the two
\* inputs' real element types and at least float32 (float16 gives float32).
C10_ShiftAtLeastSinglePrecision ==
  Returned =>
    outcome.shift.dtype =
      WiderAtLeastSingle(call.reference_image.dtype, call.moving_image.dtype)


(***************************************************************************)
(* Direct calls of _upsampled_dft.                                         *)
(***************************************************************************)
DftDone == dft.pc = "done"

\* upsampled_region_size was given as a sequence of another length than
\* data.ndim
RegionSizeMismatch ==
  /\ dft.args.upsampled_region_size.t = "list"
  /\ Len(dft.args.upsampled_region_size.v) # ndim

\* axis_offsets was given, with another length than data.ndim
OffsetsMismatch ==
  /\ dft.args.axis_offsets.t = "list"
  /\ Len(dft.args.axis_offsets.v) # ndim

\* C11: a call of _upsampled_dft ends in a ValueError exactly when the
\* region size is a sequence whose length differs from data.ndim or the
\* offsets are given with a length that differs from data.ndim, and then no
\* kernel has been built; nothing else is raised; an integer region size
\* has become data.ndim copies of itself and offsets of None a zero per axis
C11_MismatchRaisesBeforeKernels ==
  /\ DftDone =>
       /\ dft.raised \in {"no", "ValueError"}
       /\ dft.raised = "ValueError" <=> (RegionSizeMismatch \/ OffsetsMismatch)
  /\ dft.raised = "ValueError" => dft.kernels = 0 /\ dft.steps = <<>>
  /\ (dft.pc \in {"offsets", "zip", "loop", "done"}
        /\ dft.args.upsampled_region_size.t = "int") =>
       /\ Len(dft.upsampled_region_size.v) = ndim
       /\ \A d \in 1..ndim :
            dft.upsampled_region_size.v[d] = dft.args.upsampled_region_size.v[1]
  /\ (dft.pc \in {"zip", "loop", "done"} /\ dft.raised = "no"
        /\ dft.args.axis_offsets = PyNone) =>
       /\ Len(dft.axis_offsets.v) = ndim
       /\ \A d \in 1..ndim : dft.axis_offsets.v[d] = 0

\* an integer region size was broadcast, then offsets of a wrong length
\* raised the ValueError
C11_Witness ==
  /\ DftDone
  /\ dft.raised = "ValueError"
  /\ dft.args.upsampled_region_size.t = "int"
  /\ dft.upsampled_region_size.t = "list"
  /\ OffsetsMismatch


\* the region sizes and the offsets the loop works with
RegionSizes == dft.upsampled_region_size.v

\* C12: in a call that passes the length checks, the t-th iteration of the
\* loop takes original axis d = ndim - t + 1: the kernel has n_items =
\* data.shape[d] columns, the axis it is contracted with is original axis d
\* of that length, and the new axis of length region_size[d] comes first;
\* the tensor contraction never fails, the loop runs data.ndim iterations,
\* and the result has the shape region_size in the original axis order,
\* every axis being the region of the original axis at its place; the
\* result is the one the refinement branch obtains from the same arguments
C12_EveryAxisContractedOnceInOrder ==
  (dft.pc \in {"loop", "done"} /\ dft.raised # "ValueError") =>
    /\ dft.raised = "no"
    /\ Len(dft.steps) + dft.i = ndim
    /\ \A t \in 1..Len(dft.steps) :
         LET st == dft.steps[t]
             d  == ndim - t + 1
         IN  /\ st.d = d
             /\ st.n_items = dft.args.data.shape[d]
             /\ st.ups_size = RegionSizes[d]
             /\ st.contracted = <<"data", d>>
             /\ st.length = st.n_items
             /\ st.shape = SubSeq(RegionSizes, d, ndim)
                             \o SubSeq(dft.args.data.shape, 1, d - 1)
    /\ dft.axes = [a \in 1..ndim |->
                     IF a <= Len(dft.steps)
                     THEN <<"region", ndim - Len(dft.steps) + a>>
                     ELSE <<"data", a - Len(dft.steps)>>]
    /\ DftDone =>
         /\ Len(dft.steps) = ndim
         /\ dft.data.shape = RegionSizes
         /\ dft.axes = [a \in 1..ndim |-> <<"region", a>>]
         /\ \A d \in 1..ndim :
              Cardinality({t \in 1..Len(dft.steps) : dft.steps[t].d = d}) = 1
         /\ LET out == UpsampledDft(dft.args.data,
                                    dft.args.upsampled_region_size,
                                    dft.args.upsample_factor,
                                    dft.args.axis_offsets)
            IN  out.raised = "no" /\ out.shape = dft.data.shape
                                  /\ out.data = dft.data.data

\* three axes of pairwise different lengths reduced to three pairwise
\* different region sizes
C12_Witness ==
  /\ DftDone
  /\ dft.raised = "no"
  /\ ndim = 3
  /\ Cardinality({dft.args.data.shape[d] : d \in 1..3}) = 3
  /\ Cardinality({RegionSizes[d] : d \in 1..3}) = 3
  /\ \A d \in 1..3 : RegionSizes[d] # dft.args.data.shape[d]
  /\ dft.data.shape = RegionSizes


(***************************************************************************)
(* The refinement branch.                                                  *)
(***************************************************************************)
\* the phase steps, in eighths of a turn, that a displacement of 1/u on
\* axis d gives to every entry of a spectrum of the given shape: the signed
\* frequency of the entry on that axis over the axis length and u
PhaseSteps(sh, u) ==
  Stored([j \in 1..Size(sh) |->
     Stored([d \in 1..Len(sh) |->
        (8 * FftFreqNum(Unravel(j - 1, sh)[d], sh[d])) \div (sh[d] * u)])])

\* the cross-correlation of the spectrum product at the displacement
\* m[d] / u on every axis d, times the number of pixels: the sum over the
\* frequencies f of product[f] * exp(2*pi*i * f[d] * m[d] / (n[d] * u)),
\* with the signed frequencies of the discrete Fourier transform
CorrelationAt(product, steps, m) ==
  ZSum([j \in 1..Len(product) |->
     ZMul(product[j], ZRoot(DotFrom(steps[j], m, 1)))])

\* C13: the refinement step, taken with integer-pixel estimate s, builds a
\* patch of ceil(1.5*u) entries per axis whose entry k is the
\* cross-correlation at displacement s + (k - dftshift)/u, dftshift =
\* floor(size/2); the entry at dftshift on every axis is the integer-pixel
\* peak itself; the refined shift is s + (k_max - dftshift)/u for the
\* maximum k_max of the patch, a multiple of 1/u less than one pixel away
\* from s on every axis
C13_RefinedShiftWithinOnePixel ==
  [][ (pc = "branch" /\ pc' = "singleton" /\ call.upsample_factor # 1) =>
        LET u    == call.upsample_factor
            size == (3 * u + 1) \div 2
            mid  == size \div 2
            s    == shift.num
            n    == Len(shape)
        IN  \A p \in {cross_correlation'} :
            \A steps \in {PhaseSteps(shape, u)} :
            \A top \in {AbsSq(p.data[Ravel(maxima', p.shape) + 1])} :
            /\ shift.den = 1
            /\ p.shape = [d \in 1..n |-> size]
            /\ \A f \in 1..Len(p.data) :
                 /\ p.data[f] =
                      CorrelationAt(image_product, steps,
                         Stored([d \in 1..n |->
                            s[d] * u + Unravel(f - 1, p.shape)[d] - mid]))
                 /\ ~RLess(top, AbsSq(p.data[f]))
            /\ p.data[Ravel([d \in 1..n |-> mid], p.shape) + 1] =
                 cross_correlation.data[Ravel(maxima, shape) + 1]
            /\ shift'.den = u
            /\ \A d \in 1..n :
                 /\ maxima'[d] \in 0..(size - 1)
                 /\ shift'.num[d] = s[d] * u + (maxima'[d] - mid)
                 /\ shift'.num[d] - s[d] * u < u
                 /\ s[d] * u - shift'.num[d] < u ]_vars

\* a refinement has moved the estimate off the integer pixel on an axis
\* longer than one
C13_Witness ==
  /\ pc = "singleton"
  /\ call.upsample_factor >= 2
  /\ \E d \in 1..Len(shape) :
       /\ shape[d] > 1
       /\ maxima[d] # DftShift(call.upsample_factor)
       /\ shift.num[d] % call.upsample_factor # 0

====
